---- MODULE Spec2Model ----
(***************************************************************************)
(* In-place calculation of minimum-redundancy codeword lengths             *)
(* (src/c/inplace.c, Moffat and Katajainen).                               *)
(*                                                                         *)
(* The program is sequential; pc is its position.  Spec is the whole       *)
(* program (main, which validates its input and then calls the             *)
(* calculator); SpecCalc is calculate_minimum_redundancy called directly   *)
(* on a non-decreasing array of non-negative frequencies, the empty array  *)
(* included.                                                               *)
(*                                                                         *)
(* A long long has LLBits bits here and the sums and products of           *)
(* frequencies wrap as the machine's do (LL).  Huge, a quarter of the      *)
(* range, stands for 2^62: the runs of the model on frequencies k * Huge + *)
(* small are the runs of the 64-bit program on k * 2^62 + small, every     *)
(* comparison and every wrap included.  n, the cursors and the depths are  *)
(* at most LIMIT and never wrap.                                           *)
(***************************************************************************)
EXTENDS Integers, Sequences, FiniteSets

VARIABLES
    pc,        \* position in the program
    stdin,     \* the tokens not yet consumed by scanf
    n,         \* main's n, and the calculator's parameter n
    declared,  \* history: the value the first scanf left in n
    A,         \* the array of freqs, then of parent pointers, depths, lengths
    B,         \* a copy of A
    i,         \* main's loop index
    totfreq,   \* total frequency
    ent,       \* entropy (the double, by its class: "nan", "zero", "pos")
    bits,      \* total bits in codewords
    root,      \* next root node to be used
    leaf,      \* next leaf to be used
    next,      \* next value to be assigned
    avbl,      \* number of available nodes
    used,      \* number of internal nodes
    dpth,      \* current depth of leaves
    stdout,    \* lines printed
    stderr,    \* diagnostics printed
    status,    \* exit status, -1 while running
    called,    \* history: calculate_minimum_redundancy was entered
    touched,   \* history: the indices of A the calculator read or wrote
    parent     \* history: A[0..n-3] as pass 1 left it

vars == <<pc, stdin, n, declared, A, B, i, totfreq, ent, bits, root, leaf,
          next, avbl, used, dpth, stdout, stderr, status, called, touched,
          parent>>

cursors == <<root, leaf, next, avbl, used, dpth>>
mainv == <<stdin, n, declared, B, i, totfreq, ent, bits>>
io == <<stdout, stderr, status>>

\* ------------------------------------------------------------- bounds
MaxN == 6
MaxFreq == 4
MaxTok == 3
MaxVal == 2
\* alphabets of at most BruteN symbols are compared with every code
BruteN == 4
\* the bits given to a long long
LLBits == 20

LIMIT == 1000000000

\* ------------------------------------------------------------ helpers
RECURSIVE Pow2(_)
Pow2(k) == IF k <= 0 THEN 1 ELSE 2 * Pow2(k - 1)

\* the largest long long, and the value that stands for 2^62
LLMax == Pow2(LLBits - 1) - 1
Huge == Pow2(LLBits - 2)

\* the long long a sum or product is stored as: two's complement wrap
LL(x) == ((x + LLMax + 1) % (2 * (LLMax + 1))) - (LLMax + 1)

EmptyArr == [k \in {} |-> 0]

Tok(v) == [num |-> TRUE, val |-> v]
Junk == [num |-> FALSE, val |-> 0]

\* what an uninitialised long long may hold: a slot of A (a negative value,
\* zero, a positive one), and n (a count of LIMIT with no number to read
\* would take LIMIT iterations and is left out)
Indeterminate == {-1, 0, MaxVal}
IndeterminateN == (-1 .. MaxTok + 1) \cup {LIMIT + 1}

RECURSIVE SumTo(_, _)
SumTo(f, k) == IF k <= 0 THEN 0 ELSE f[k - 1] + SumTo(f, k - 1)

NonDecreasing(f, len) == \A k \in 1 .. len - 1 : f[k - 1] <= f[k]

\* ------------------------------------------------------------ main
\* if (n <= 0 || n > LIMIT)
BadCount(v) == v <= 0 \/ v > LIMIT

\* mutant: the order of the frequencies is not checked
BadFreqNoOrder(arr, k) == arr[k] < 0

\* if (A[i] < 0 || (i>0 && A[i-1] > A[i]))
BadFreq(arr, k) == arr[k] < 0 \/ (k > 0 /\ arr[k - 1] > arr[k])

\* if (totfreq <= 0)
BadTotal(t) == t <= 0

\* fprintf(stderr, ...); exit(1);
Fail(msg) ==
    /\ stderr' = Append(stderr, msg)
    /\ status' = 1
    /\ pc' = "exit"
    /\ UNCHANGED stdout

\* scanf("%lld", &n) and the check of n.  At end of input or on a token that
\* is no number scanf stores nothing and n keeps its indeterminate value.
ScanN ==
    /\ pc = "start"
    /\ LET got == stdin # <<>> /\ Head(stdin).num IN
       \E v \in (IF got THEN {Head(stdin).val} ELSE IndeterminateN) :
          /\ n' = v
          /\ declared' = v
          /\ stdin' = IF got THEN Tail(stdin) ELSE stdin
          /\ IF BadCount(v)
                THEN Fail("n should be at least 0 and less than LIMIT")
                ELSE pc' = "alloc" /\ UNCHANGED io
    /\ UNCHANGED <<A, B, i, totfreq, ent, bits, cursors, called, touched, parent>>

\* the two malloc calls; either may return NULL
Alloc ==
    /\ pc = "alloc"
    /\ \E ok \in BOOLEAN :
          IF ok
             THEN pc' = "read" /\ i' = 0 /\ UNCHANGED io
             ELSE Fail("unable to allocate memory") /\ UNCHANGED i
    /\ UNCHANGED <<stdin, n, declared, A, B, totfreq, ent, bits, cursors,
                   called, touched, parent>>

\* for (i=0; i<n; i++) if (scanf("%lld", A+i) == EOF) { n = i; break; }
\* A token that is no number is not consumed and A[i] keeps what malloc left.
ReadFreq ==
    /\ pc = "read"
    /\ IF i < n /\ stdin # <<>>
          THEN /\ \E v \in (IF Head(stdin).num THEN {Head(stdin).val} ELSE Indeterminate) :
                     A' = [k \in 0 .. i |-> IF k = i THEN v ELSE A[k]]
               /\ stdin' = IF Head(stdin).num THEN Tail(stdin) ELSE stdin
               /\ i' = i + 1
               /\ UNCHANGED <<pc, n, totfreq>>
          ELSE /\ n' = IF i < n THEN i ELSE n
               /\ pc' = "check"
               /\ i' = 0
               /\ totfreq' = 0
               /\ UNCHANGED <<A, stdin>>
    /\ UNCHANGED <<declared, B, ent, bits, cursors, io, called, touched, parent>>

\* for (i=0; i<n; i++) { totfreq += A[i]; if (...) exit(1); }
CheckFreq ==
    /\ pc = "check"
    /\ IF i < n
          THEN /\ totfreq' = LL(totfreq + A[i])
               /\ IF BadFreq(A, i)
                     THEN Fail("input frequencies must be non-negative and non-decreasing")
                          /\ UNCHANGED i
                     ELSE i' = i + 1 /\ UNCHANGED <<pc, io>>
          ELSE /\ pc' = "total"
               /\ UNCHANGED <<i, totfreq, io>>
    /\ UNCHANGED <<stdin, n, declared, A, B, ent, bits, cursors, called,
                   touched, parent>>

CheckTotal ==
    /\ pc = "total"
    /\ IF BadTotal(totfreq)
          THEN Fail("sum of frequencies must be positive")
          ELSE pc' = "entropy" /\ UNCHANGED io
    /\ UNCHANGED <<mainv, A, cursors, called, touched, parent>>

\* ent = 0.0; for (...) { prob = (double)A[i]/totfreq; ent += - prob * log2(prob); }
\* log2(0) is -infinity and 0 * -infinity is NaN, which every later sum keeps;
\* a term with 0 < prob < 1 is positive, and the term of prob = 1 is 0.
\* totfreq is the sum itself here: no sum of MaxTok frequencies of at most
\* MaxVal wraps.
EntropyClass(arr, len, t) ==
    IF \E k \in 0 .. len - 1 : arr[k] = 0 THEN "nan"
    ELSE IF \E k \in 0 .. len - 1 : arr[k] # t THEN "pos"
    ELSE "zero"

Entropy ==
    /\ pc = "entropy"
    /\ ent' = EntropyClass(A, n, totfreq)
    /\ pc' = "copy"
    /\ UNCHANGED <<stdin, n, declared, A, B, i, totfreq, bits, cursors, io,
                   called, touched, parent>>

\* for (i=0; i<n; i++) B[i] = A[i];  then the call
CopyToB ==
    /\ pc = "copy"
    /\ B' = A
    /\ pc' = "calc"
    /\ UNCHANGED <<stdin, n, declared, A, i, totfreq, ent, bits, cursors, io,
                   called, touched, parent>>

\* ------------------------------------------- calculate_minimum_redundancy
\* An access outside A[0..n-1] is undefined behaviour: the run is given up.
Undefined(idx) ==
    /\ pc' = "undefined"
    /\ touched' = touched \cup idx
    /\ UNCHANGED <<A, cursors, parent>>

Access(idx, body) ==
    IF idx \subseteq DOMAIN A
       THEN body /\ touched' = touched \cup idx
       ELSE Undefined(idx)

\* if (n==0) { return; }  if (n==1) { A[0] = 0; return; }
\* A[0] += A[1]; root = 0; leaf = 2;  for (next=1; ...
\* mutant: the check for n == 1 is missing
CalcCaseNoSingle == IF n = 0 THEN "empty" ELSE "pair"

CalcCase ==
    IF n = 0 THEN "empty" ELSE IF n = 1 THEN "single" ELSE "pair"

CalcBegin ==
    /\ pc = "calc"
    /\ called' = TRUE
    /\ CASE CalcCase = "empty" ->
              /\ pc' = "ret"
              /\ UNCHANGED <<A, cursors, parent, touched>>
         [] CalcCase = "single" ->
              Access({0}, /\ A' = [A EXCEPT ![0] = 0]
                          /\ pc' = "ret"
                          /\ UNCHANGED <<cursors, parent>>)
         [] OTHER ->
              Access({0, 1}, /\ A' = [A EXCEPT ![0] = LL(A[0] + A[1])]
                             /\ root' = 0
                             /\ leaf' = 2
                             /\ next' = 1
                             /\ pc' = "p1_loop"
                             /\ UNCHANGED <<avbl, used, dpth, parent>>)
    /\ UNCHANGED <<mainv, io>>

\* for (...; next < n-1; ...)
Pass1Loop ==
    /\ pc = "p1_loop"
    /\ pc' = IF next < n - 1 THEN "p1_first" ELSE "p2_init"
    /\ UNCHANGED <<mainv, io, A, cursors, called, touched, parent>>

\* mutants: the comparison reversed; the internal node preferred on a tie
PreferRoot1Reversed == leaf >= n \/ A[root] > A[leaf]
PreferRoot1OnTie == leaf >= n \/ A[root] <= A[leaf]

\* if (leaf>=n || A[root]<A[leaf])
PreferRoot1 == leaf >= n \/ A[root] < A[leaf]

\* mutant: the test root<next is missing
PreferRoot2Unguarded == leaf >= n \/ A[root] < A[leaf]

\* if (leaf>=n || (root<next && A[root]<A[leaf]))
PreferRoot2 == leaf >= n \/ (root < next /\ A[root] < A[leaf])

\* select first item for a pairing
Pass1First ==
    /\ pc = "p1_first"
    /\ Access({root, next} \cup (IF leaf < n THEN {leaf} ELSE {}),
          /\ IF PreferRoot1
                THEN /\ A' = [[A EXCEPT ![next] = A[root]] EXCEPT ![root] = next]
                     /\ root' = root + 1
                     /\ leaf' = leaf
                ELSE /\ A' = [A EXCEPT ![next] = A[leaf]]
                     /\ leaf' = leaf + 1
                     /\ root' = root
          /\ pc' = "p1_second"
          /\ UNCHANGED <<next, avbl, used, dpth, parent>>)
    /\ UNCHANGED <<mainv, io, called>>

\* add on the second item; next++
Pass1Second ==
    /\ pc = "p1_second"
    /\ Access({next} \cup (IF leaf < n THEN {leaf} ELSE {})
                     \cup (IF leaf >= n \/ root < next THEN {root} ELSE {}),
          /\ IF PreferRoot2
                THEN /\ A' = [[A EXCEPT ![next] = LL(A[next] + A[root])]
                                 EXCEPT ![root] = next]
                     /\ root' = root + 1
                     /\ leaf' = leaf
                ELSE /\ A' = [A EXCEPT ![next] = LL(A[next] + A[leaf])]
                     /\ leaf' = leaf + 1
                     /\ root' = root
          /\ next' = next + 1
          /\ pc' = "p1_loop"
          /\ UNCHANGED <<avbl, used, dpth, parent>>)
    /\ UNCHANGED <<mainv, io, called>>

\* A[n-2] = 0;  for (next=n-3; ...
Pass2Init ==
    /\ pc = "p2_init"
    /\ Access({n - 2},
          /\ A' = [A EXCEPT ![n - 2] = 0]
          /\ next' = n - 3
          /\ parent' = [k \in 0 .. n - 3 |-> A[k]]
          /\ pc' = "p2_loop"
          /\ UNCHANGED <<root, leaf, avbl, used, dpth>>)
    /\ UNCHANGED <<mainv, io, called>>

\* mutant: a depth two below its parent's
ChildDepthTwo(d) == d + 2

\* A[A[next]]+1
ChildDepth(d) == d + 1

\* for (...; next>=0; next--) A[next] = A[A[next]]+1;
Pass2Loop ==
    /\ pc = "p2_loop"
    /\ IF next >= 0
          THEN Access({next} \cup (IF next \in DOMAIN A THEN {A[next]} ELSE {}),
                  /\ A' = [A EXCEPT ![next] = ChildDepth(A[A[next]])]
                  /\ next' = next - 1
                  /\ UNCHANGED <<pc, root, leaf, avbl, used, dpth, parent>>)
          ELSE /\ pc' = "p3_init"
               /\ UNCHANGED <<A, cursors, parent, touched>>
    /\ UNCHANGED <<mainv, io, called>>

\* avbl = 1; used = dpth = 0; root = n-2; next = n-1;
Pass3Init ==
    /\ pc = "p3_init"
    /\ avbl' = 1
    /\ used' = 0
    /\ dpth' = 0
    /\ root' = n - 2
    /\ next' = n - 1
    /\ pc' = "p3_outer"
    /\ UNCHANGED <<mainv, io, A, leaf, called, touched, parent>>

\* while (avbl>0)
Pass3Outer ==
    /\ pc = "p3_outer"
    /\ pc' = IF avbl > 0 THEN "p3_roots" ELSE "ret"
    /\ UNCHANGED <<mainv, io, A, cursors, called, touched, parent>>

\* while (root>=0 && A[root]==dpth) { used++; root--; }
Pass3Roots ==
    /\ pc = "p3_roots"
    /\ IF root >= 0
          THEN Access({root},
                  /\ IF A[root] = dpth
                        THEN used' = used + 1 /\ root' = root - 1 /\ UNCHANGED pc
                        ELSE pc' = "p3_leaves" /\ UNCHANGED <<used, root>>
                  /\ UNCHANGED <<A, leaf, next, avbl, dpth, parent>>)
          ELSE /\ pc' = "p3_leaves"
               /\ UNCHANGED <<A, cursors, parent, touched>>
    /\ UNCHANGED <<mainv, io, called>>

\* mutant: the next level has as many slots as this one has internal nodes
NextAvblNoDoubling(u) == u

\* avbl = 2*used
NextAvbl(u) == 2 * u

\* while (avbl>used) { A[next--] = dpth; avbl--; }
\* avbl = 2*used; dpth++; used = 0;
Pass3Leaves ==
    /\ pc = "p3_leaves"
    /\ IF avbl > used
          THEN Access({next},
                  /\ A' = [A EXCEPT ![next] = dpth]
                  /\ next' = next - 1
                  /\ avbl' = avbl - 1
                  /\ UNCHANGED <<pc, root, leaf, used, dpth, parent>>)
          ELSE /\ avbl' = NextAvbl(used)
               /\ dpth' = dpth + 1
               /\ used' = 0
               /\ pc' = "p3_outer"
               /\ UNCHANGED <<A, root, leaf, next, parent, touched>>
    /\ UNCHANGED <<mainv, io, called>>

\* ------------------------------------------------------ main, after the call
\* bits = 0; for (i=0; i<n; i++) bits += A[i] * B[i];
RECURSIVE Bits(_, _, _)
Bits(len, freq, k) ==
    IF k <= 0 THEN 0
    ELSE LL(Bits(len, freq, k - 1) + LL(len[k - 1] * freq[k - 1]))

\* the printf calls and return(0)
Report ==
    /\ pc = "ret"
    /\ bits' = Bits(A, B, n)
    /\ stdout' = (IF n <= 100
                     THEN [k \in 1 .. n |-> <<"f", k - 1, B[k - 1], A[k - 1]>>]
                     ELSE <<>>)
                 \o <<<<"entropy", ent>>,
                      <<"minimum-redundancy code", bits', totfreq>>>>
                 \o (IF ent = "pos" THEN <<<<"inefficiency">>>> ELSE <<>>)
    /\ status' = 0
    /\ pc' = "exit"
    /\ UNCHANGED <<stdin, n, declared, A, B, i, totfreq, ent, stderr, cursors,
                   called, touched, parent>>

\* ------------------------------------------------------- specifications
SeqsUpTo(S, len) == UNION {[1 .. k -> S] : k \in 0 .. len}

CountToks == {Tok(v) : v \in (-1 .. MaxTok + 1) \cup {LIMIT, LIMIT + 1}}
FreqToks == {Tok(v) : v \in -1 .. MaxVal} \cup {Junk}

\* the input streams: a count, then at most MaxTok tokens.  Nothing after a
\* first token that is no number is ever read.
Streams ==
    {<<>>, <<Junk>>}
    \cup {<<c>> \o s : c \in CountToks, s \in SeqsUpTo(FreqToks, MaxTok)}

InitCommon ==
    /\ i = 0 /\ totfreq = 0 /\ ent = "unset" /\ bits = 0
    /\ root = 0 /\ leaf = 0 /\ next = 0 /\ avbl = 0 /\ used = 0 /\ dpth = 0
    /\ stdout = <<>> /\ stderr = <<>> /\ status = -1
    /\ called = FALSE /\ touched = {} /\ parent = EmptyArr

Init ==
    /\ pc = "start"
    /\ stdin \in {s \in Streams :
                    Len(s) > 0 /\ s[1] = Tok(LIMIT)
                       => \A k \in 2 .. Len(s) : s[k].num}
    /\ n = 0 /\ declared = 0
    /\ A = EmptyArr /\ B = EmptyArr
    /\ InitCommon

Next ==
    \/ ScanN \/ Alloc \/ ReadFreq \/ CheckFreq \/ CheckTotal \/ Entropy
    \/ CopyToB
    \/ CalcBegin \/ Pass1Loop \/ Pass1First \/ Pass1Second \/ Pass2Init
    \/ Pass2Loop \/ Pass3Init \/ Pass3Outer \/ Pass3Roots \/ Pass3Leaves
    \/ Report

Spec == Init /\ [][Next]_vars

\* the calculator called on its own: every non-decreasing array of at most
\* MaxN frequencies, each in 0..MaxFreq or Huge
Inputs ==
    UNION {{f \in [0 .. len - 1 -> (0 .. MaxFreq) \cup {Huge}] :
               NonDecreasing(f, len)} : len \in 0 .. MaxN}

InitCalc ==
    /\ pc = "calc"
    /\ stdin = <<>>
    /\ A \in Inputs
    /\ B = A
    /\ n = Cardinality(DOMAIN A)
    /\ declared = n
    /\ InitCommon

NextCalc ==
    \/ CalcBegin \/ Pass1Loop \/ Pass1First \/ Pass1Second \/ Pass2Init
    \/ Pass2Loop \/ Pass3Init \/ Pass3Outer \/ Pass3Roots \/ Pass3Leaves

SpecCalc == InitCalc /\ [][NextCalc]_vars

\* a sequential program always takes its next step
SpecCalcFair == SpecCalc /\ WF_vars(NextCalc)

\* ---------------------------------------------------------------- claims
Returned == pc = "ret"

\* the frequencies as a sequence (B is the copy taken before the call)
FreqSeq == [k \in 1 .. n |-> B[k - 1]]

RECURSIVE Insert(_, _)
Insert(s, x) ==
    IF s = <<>> THEN <<x>>
    ELSE IF x <= Head(s) THEN <<x>> \o s
    ELSE <<Head(s)>> \o Insert(Tail(s), x)

\* the cost of Huffman's construction on a sorted sequence: the two smallest
\* weights are replaced by their sum, and the sums add up to the cost
RECURSIVE HuffmanCost(_)
HuffmanCost(s) ==
    IF Len(s) <= 1 THEN 0
    ELSE LET m == s[1] + s[2] IN
         m + HuffmanCost(Insert(SubSeq(s, 3, Len(s)), m))

RECURSIVE KraftSum(_, _, _)
KraftSum(len, k, top) ==
    IF k <= 0 THEN 0 ELSE Pow2(top - len[k - 1]) + KraftSum(len, k - 1, top)

MaxLength(len, k) == CHOOSE m \in {len[j] : j \in 0 .. k - 1} :
                        \A j \in 0 .. k - 1 : len[j] <= m

\* the length assignments of the prefix-free codes for k symbols (Kraft's
\* inequality), codewords of at most k - 1 bits
PrefixCodes(k) ==
    {len \in [0 .. k - 1 -> 1 .. k - 1] : KraftSum(len, k, k - 1) <= Pow2(k - 1)}

\* the weighted total sum(length_i * freq_i), exactly
RECURSIVE Cost(_, _, _)
Cost(len, freq, k) ==
    IF k <= 0 THEN 0 ELSE len[k - 1] * freq[k - 1] + Cost(len, freq, k - 1)

Optimal ==
    /\ Cost(A, B, n) = HuffmanCost(FreqSeq)
    /\ n <= BruteN =>
          \A len \in PrefixCodes(n) : Cost(A, B, n) <= Cost(len, B, n)

C2_Kraft ==
    Returned /\ n >= 2 =>
        /\ \A k \in 0 .. n - 1 : A[k] >= 1 /\ A[k] <= n - 1
        /\ KraftSum(A, n, MaxLength(A, n)) = Pow2(MaxLength(A, n))

\* zeros and ties: [0, 0, 1, 1, 1] has lengths of 3, 2 and 1 bits
C2_Witness ==
    /\ Returned /\ n = 5
    /\ B[0] = 0 /\ B[1] = 0 /\ B[2] = 1 /\ B[4] = 1
    /\ MaxLength(A, n) >= 3

\* C3: the lengths are non-increasing by position and none is negative.
C3_NonIncreasing ==
    Returned =>
        /\ DOMAIN A = 0 .. n - 1
        /\ \A j \in 0 .. n - 1 : A[j] >= 0
        /\ \A j \in 0 .. n - 1 : \A k \in j .. n - 1 : A[j] >= A[k]

\* lengths that do differ: the first symbol's code is longer than the last's
C3_Witness ==
    /\ Returned /\ n >= 3
    /\ B[0] < B[n - 1]
    /\ A[0] > A[n - 1] + 1

\* C6: with n = 0 the calculator returns without touching a slot, with n = 1
\* it returns A[0] = 0 whatever the frequency was, and in neither case does a
\* pass run (no cursor is set, no position of a pass is entered).
C6_Degenerate ==
    called /\ n <= 1 =>
        /\ Returned
        /\ cursors = <<0, 0, 0, 0, 0, 0>> /\ parent = EmptyArr
        /\ n = 0 => touched = {} /\ A = EmptyArr
        /\ n = 1 => touched = {0} /\ DOMAIN A = {0} /\ A[0] = 0

C6_Witness == Returned /\ n = 1 /\ B[0] > 0 /\ A[0] = 0

\* the number of parent hops from node k to the root node n - 2, following
\* the pointers pass 1 left
RECURSIVE Hops(_, _)
Hops(k, fuel) ==
    IF k = n - 2 \/ fuel <= 0 \/ k \notin DOMAIN parent THEN 0
    ELSE 1 + Hops(parent[k], fuel - 1)

\* C7: the calculator terminates on every input, and pass 3 stops (avbl = 0)
\* exactly when every slot has its length: next = -1 and root = -1.
C7_Terminates ==
    /\ <>Returned
    /\ [](pc = "p3_outer" => (avbl <= 0 <=> next = -1 /\ root = -1))

C7_Witness ==
    Returned /\ n >= 5 /\ next = -1 /\ root = -1 /\ avbl = 0 /\ dpth >= 5

TookRoot == root' = root + 1 /\ leaf' = leaf
TookLeaf == leaf' = leaf + 1 /\ root' = root

\* C8: in both selections of a pass-1 iteration, with an internal node and a
\* leaf both available the internal node is taken iff A[root] < A[leaf], and
\* the leaf otherwise; the internal node is taken regardless only when the
\* leaves are exhausted, the leaf regardless only in the second selection
\* with no internal node left (the first always has one: root < next).
C8_TieBreak ==
    [][/\ pc = "p1_first" =>
             /\ root < next
             /\ leaf < n => /\ TookRoot <=> A[root] < A[leaf]
                            /\ TookLeaf <=> A[root] >= A[leaf]
             /\ leaf >= n => TookRoot
       /\ pc = "p1_second" =>
             /\ root <= next
             /\ root < next /\ leaf < n =>
                   /\ TookRoot <=> A[root] < A[leaf]
                   /\ TookLeaf <=> A[root] >= A[leaf]
             /\ leaf >= n => root < next /\ TookRoot
             /\ root = next => leaf < n /\ TookLeaf]_vars

\* a tie between the internal node and the leaf, in the second selection
C8_Witness ==
    pc = "p1_second" /\ root < next /\ leaf < n /\ A[root] = A[leaf] /\ A[root] > 0

\* the pointers pass 1 leaves, and the depths pass 2 makes of them
ForwardPointers ==
    /\ pc = "p2_init" =>
          /\ root = n - 2 /\ leaf = n
          /\ \A k \in 0 .. n - 3 : k < A[k] /\ A[k] <= n - 2
    /\ pc = "p2_loop" =>
          /\ next >= 0 => A[next] = parent[next] /\ A[next] \in next + 1 .. n - 2
          /\ \A k \in next + 1 .. n - 2 : A[k] = Hops(k, n)
    /\ pc = "p3_init" => \A k \in 0 .. n - 2 : A[k] = Hops(k, n)

C10_InPlace ==
    /\ pc # "undefined"
    /\ touched \subseteq 0 .. n - 1
    /\ pc = "p1_first" => root < next /\ next < leaf /\ leaf <= n
    /\ pc = "p1_second" =>
          /\ root <= next /\ next < leaf /\ leaf <= n
          /\ leaf >= n => root < next
    /\ pc \in {"p1_loop", "p1_first", "p1_second"} =>
          \A k \in leaf .. n - 1 : A[k] = B[k]
    /\ pc = "p3_leaves" /\ avbl > used =>
          -1 <= root /\ root < next /\ next <= n - 1
    /\ pc \in {"p3_outer", "p3_roots", "p3_leaves"} =>
          \A k \in 0 .. root : A[k] = Hops(k, n)

\* the tightest write of pass 1: the slot between the last internal node
\* consumed and the next leaf, which is read for the sum
C10_Witness ==
    pc = "p1_second" /\ root = next /\ leaf = next + 1 /\ leaf < n

\* Natural numbers beyond the model checker's integers: sequences of
\* base-10000 digits, the least significant first, no leading zero.
RECURSIVE BigTimes(_, _, _)
BigTimes(x, k, carry) ==
    IF x = <<>>
       THEN IF carry = 0 THEN <<>>
            ELSE <<carry % 10000>> \o BigTimes(<<>>, k, carry \div 10000)
       ELSE LET v == Head(x) * k + carry IN
            <<v % 10000>> \o BigTimes(Tail(x), k, v \div 10000)

\* x * b^e
RECURSIVE BigPower(_, _, _)
BigPower(x, b, e) ==
    IF e <= 0 THEN x ELSE BigPower(BigTimes(x, b, 0), b, e - 1)

BigLess(x, y) ==
    \/ Len(x) < Len(y)
    \/ /\ Len(x) = Len(y)
       /\ \E k \in 1 .. Len(x) :
             x[k] < y[k] /\ \A j \in k + 1 .. Len(x) : x[j] = y[j]

\* x * the product of f^f over the first k frequencies (0^0 = 1)
RECURSIVE FreqPowers(_, _, _)
FreqPowers(x, freq, k) ==
    IF k <= 0 THEN x
    ELSE FreqPowers(BigPower(x, freq[k - 1], freq[k - 1]), freq, k - 1)

\* With T = totfreq and entropy H = sum (f/T) log2(T/f), taking 0 log 0 = 0:
\*   bits/T >= H      iff  2^bits * prod f^f >= T^T
\*   bits/T <  H + 1  iff  2^bits * prod f^f <  (2T)^T
AtLeastEntropy ==
    ~BigLess(FreqPowers(BigPower(<<1>>, 2, bits), B, n),
             BigPower(<<1>>, totfreq, totfreq))

BelowEntropyPlusOne ==
    BigLess(FreqPowers(BigPower(<<1>>, 2, bits), B, n),
            BigPower(<<1>>, 2 * totfreq, totfreq))

Reported == pc = "exit" /\ status = 0

AllPositive == \A k \in 0 .. n - 1 : B[k] > 0

InputValid(freq) ==
    LET len == Cardinality(DOMAIN freq) IN
    /\ declared > 0 /\ declared <= LIMIT
    /\ DOMAIN freq = 0 .. len - 1
    /\ \A k \in 0 .. len - 1 : freq[k] >= 0
    /\ NonDecreasing(freq, len)
    /\ SumTo(freq, len) > 0

\* C5: the calculator is entered only with 0 < declared n <= LIMIT, every
\* frequency read non-negative and not below its predecessor, and a positive
\* sum; a run that ends otherwise ends with status 1 after one diagnostic on
\* stderr, the calculator not entered and nothing on stdout.
C5_Validated ==
    /\ called => InputValid(B) /\ n = Cardinality(DOMAIN B) /\ n <= declared
    /\ ~called => stdout = <<>> /\ status # 0
    /\ pc = "exit" =>
          \/ status = 0 /\ called /\ stderr = <<>>
          \/ status = 1 /\ ~called /\ stdout = <<>> /\ Len(stderr) = 1
    /\ pc = "exit" /\ ~InputValid(IF called THEN B ELSE A) => status = 1

\* an input rejected for its order: 2 then 1
C5_Witness ==
    /\ pc = "exit" /\ status = 1 /\ ~called
    /\ declared >= 2 /\ i = 1
    /\ A[0] = 2 /\ A[1] = 1

====
